---- MODULE Spec2Model ----
(***************************************************************************)
(* CityGuard: encrypted report storage (contracts/CityGuard.sol).           *)
(*                                                                          *)
(* The ledger serialises transactions, so every external function of the   *)
(* contract is one atomic action.  A transaction that reverts leaves the    *)
(* contract storage and the FHE access-control list as they were; the      *)
(* model records the outcome of the last call in `last`.                    *)
(***************************************************************************)
EXTENDS Integers, Sequences, FiniteSets, TLC

(***************************************************************************)
(* Bounds of the model.                                                     *)
(***************************************************************************)
MaxReports == 2     \* submissions explored (length of _reports)

(***************************************************************************)
(* Principals and input domains.                                            *)
(***************************************************************************)
Principals == {"alice", "bob"}          \* msg.sender of a transaction
Contract == "this"                      \* address(this)
\* (title, encryptedData) arguments of submitReport: two well-formed ones,
\* and the ones with an empty title or an empty payload.
ValidInputs == {<<"T", <<7>>>>, <<"U", <<8, 9>>>>}
AnyInputs == ValidInputs \cup {<<"", <<7>>>>, <<"T", <<>>>>, <<"", <<>>>>}
Pending == 0
Reviewed == 1
Resolved == 2
ReportStatus == {Pending, Reviewed, Resolved}

\* An external encrypted input is created off-chain for one user and this
\* contract (createEncryptedInput(contractAddress, userAddress)): the handle
\* names the user it is bound to.
ExternalHandles == {<<"h", p>> : p \in Principals}
\* The input proof made together with the handle, or bytes that prove nothing.
Proofs == {"proof", "junk"}
\* What the input verifier accepts: the proof made with the handle, presented
\* for the user the input was created for.
ValidInput(handle, proof, user) == proof = "proof" /\ handle[2] = user

Ids == 0..MaxReports                    \* uint256 id arguments explored
NoId == "none"                          \* no id was assigned or passed
NoCaller == "-"                         \* a view call: msg.sender is not read

VARIABLES
    reports,            \* Report[] private _reports
    reportsByReporter,  \* mapping(address => uint256[]) _reportsByReporter
    acl,                \* FHE ACL: set of <<handle, principal>> grants
    now,                \* block.timestamp of the latest block that stored a report
                        \* (far below 2^64: the uint64 cast keeps it)
    last,               \* outcome of the last call
    submitted,          \* number of submitReport transactions that succeeded
    cipher,             \* the running chacha20Encrypt / chacha20Decrypt call
    fheCounter,         \* the FHECounter contract
    client,             \* the submitting and the decrypting client of one wallet
    list                \* the ReportList component and its fetchReports calls

vars == <<reports, reportsByReporter, acl, now, last, submitted, cipher, fheCounter, client, list>>
\* The variables a step of the CityGuard contract, of the cipher and of the
\* counter contract leaves alone.
notCityGuard == <<cipher, fheCounter, client, list>>
notCipher == <<reports, reportsByReporter, acl, now, last, submitted, fheCounter, client, list>>
notCounter == <<reports, reportsByReporter, acl, now, last, submitted, cipher, client, list>>
notClient == <<cipher, fheCounter, list>>
notList == <<cipher, fheCounter, client>>
ledger == <<reports, reportsByReporter, acl, now, last, submitted>>

InitContract ==
    /\ reports = <<>>
    /\ reportsByReporter = [p \in Principals |-> <<>>]
    /\ acl = {}
    /\ now = 1
    /\ last = [op |-> "deploy", caller |-> Contract, id |-> NoId, result |-> "ok",
               logs |-> <<>>]
    /\ submitted = 0

(***************************************************************************)
(* FHE.fromExternal(encKey, inputProof): submitReport hands the handle, the  *)
(* proof and msg.sender to the input verifier and reverts unless it accepts.*)
(***************************************************************************)
fromExternalOK_unchecked(encKey, inputProof, sender) == TRUE

fromExternalOK(encKey, inputProof, sender) ==
    ValidInput(encKey, inputProof, sender)

\* uint256 id = _reports.length - 1, taken after the push.
newId_noMinusOne(lengthAfterPush) == lengthAfterPush

newId(lengthAfterPush) == lengthAfterPush - 1

\* _reportsByReporter[msg.sender].push(id).
pushId_ordinal(index, sender, id) ==
    [index EXCEPT ![sender] = Append(@, Len(index[sender]))]

pushId_front(index, sender, id) == [index EXCEPT ![sender] = <<id>> \o @]

pushId(index, sender, id) == [index EXCEPT ![sender] = Append(@, id)]

grants_onlyThis(handle, sender) == {<<handle, Contract>>}

\* FHE.allowThis(handle); FHE.allow(handle, msg.sender).
grants(handle, sender) == {<<handle, Contract>>, <<handle, sender>>}

\* Solidity's checked array index: _reports[id] reverts (Panic 0x32) unless
\* id < _reports.length.
inBounds(id) == id < Len(reports)

newReport_noCreatedAt(sender, title, encryptedData, key, timestamp) ==
    [reporter |-> sender, title |-> title, encryptedData |-> encryptedData,
     encryptedKey |-> key, createdAt |-> 0, status |-> Pending]

newReport_noData(sender, title, encryptedData, key, timestamp) ==
    [reporter |-> sender, title |-> title, encryptedData |-> <<>>,
     encryptedKey |-> key, createdAt |-> timestamp, status |-> Pending]

newReport_createdAtCountsDown(sender, title, encryptedData, key, timestamp) ==
    [reporter |-> sender, title |-> title, encryptedData |-> encryptedData,
     encryptedKey |-> key, createdAt |-> 0 - timestamp, status |-> Pending]

\* Report memory r, filled field by field.
newReport(sender, title, encryptedData, key, timestamp) ==
    [reporter |-> sender, title |-> title, encryptedData |-> encryptedData,
     encryptedKey |-> key, createdAt |-> timestamp, status |-> Pending]

ReportSubmitted_lengthAsId(id, reporter, title, createdAt) ==
    <<[name |-> "ReportSubmitted", id |-> id + 1, reporter |-> reporter,
       title |-> title, createdAt |-> createdAt]>>

\* emit ReportSubmitted(id, msg.sender, title, r.createdAt): the logs of the
\* transaction's receipt.
ReportSubmitted(id, reporter, title, createdAt) ==
    <<[name |-> "ReportSubmitted", id |-> id, reporter |-> reporter,
       title |-> title, createdAt |-> createdAt]>>

\* emit ReportStatusUpdated(id, newStatus).
ReportStatusUpdated(id, newStatus) ==
    <<[name |-> "ReportStatusUpdated", id |-> id, newStatus |-> newStatus]>>

\* `timestamp` is block.timestamp of the block that includes the transaction.
submitReport(sender, title, encryptedData, encKey, inputProof, timestamp) ==
    IF ~fromExternalOK(encKey, inputProof, sender)
    THEN /\ last' = [op |-> "submitReport", caller |-> sender, id |-> NoId,
                     result |-> "InvalidProof",
                     encKey |-> encKey, inputProof |-> inputProof,
                     logs |-> <<>>]
         /\ UNCHANGED <<reports, reportsByReporter, acl, now, submitted>>
    ELSE /\ Len(reports) < MaxReports
         /\ LET r == newReport(sender, title, encryptedData, encKey, timestamp)
                id == newId(Len(reports) + 1)
            IN /\ reports' = Append(reports, r)
               /\ reportsByReporter' = pushId(reportsByReporter, sender, id)
               /\ acl' = acl \cup grants(r.encryptedKey, sender)
               /\ last' = [op |-> "submitReport", caller |-> sender, id |-> id,
                           result |-> "ok",
                           encKey |-> encKey, inputProof |-> inputProof,
                           logs |-> ReportSubmitted(id, sender, title, r.createdAt)]
               /\ submitted' = submitted + 1
               /\ now' = timestamp

updateCheck_noOwnerCheck(id, sender) ==
    IF ~inBounds(id) THEN "NotFound" ELSE "ok"

updateCheck_noExistenceCheck(id, sender) ==
    IF inBounds(id) /\ reports[id + 1].reporter = sender THEN "ok"
    ELSE "PermissionDenied"

\* The two require statements of updateReportStatus, in order.
updateCheck(id, sender) ==
    IF ~inBounds(id) THEN "NotFound"
    ELSE IF reports[id + 1].reporter # sender THEN "PermissionDenied"
    ELSE "ok"

setStatus_forwardOnly(rs, id, newStatus) ==
    [rs EXCEPT ![id + 1].status = IF newStatus > @ THEN newStatus ELSE @]

setStatus_touchCreatedAt(rs, id, newStatus) ==
    [rs EXCEPT ![id + 1].status = newStatus, ![id + 1].createdAt = now]

setStatus_everyReport(rs, id, newStatus) ==
    [i \in 1..Len(rs) |-> [rs[i] EXCEPT !.status = newStatus]]

\* _reports[id].status = newStatus.
setStatus(rs, id, newStatus) == [rs EXCEPT ![id + 1].status = newStatus]

updateReportStatus(sender, id, newStatus) ==
    LET res == updateCheck(id, sender)
    IN /\ last' = [op |-> "updateReportStatus", caller |-> sender, id |-> id,
                   result |-> res,
                   logs |-> IF res = "ok" THEN ReportStatusUpdated(id, newStatus)
                            ELSE <<>>]
       /\ reports' = IF res = "ok"
                     THEN setStatus(reports, id, newStatus)
                     ELSE reports
       /\ UNCHANGED <<reportsByReporter, acl, now, submitted>>

readResult_offByOne(id) == IF id <= Len(reports) THEN "ok" ELSE "NotFound"

\* The three view functions that index _reports.
readResult(id) == IF inBounds(id) THEN "ok" ELSE "NotFound"

getReportMeta(id) ==
    /\ last' = [op |-> "getReportMeta", caller |-> NoCaller, id |-> NoId,
                result |-> readResult(id), logs |-> <<>>]
    /\ UNCHANGED <<reports, reportsByReporter, acl, now, submitted>>

getReportData_marksReviewed(id) ==
    /\ last' = [op |-> "getReportData", caller |-> NoCaller, id |-> NoId,
                result |-> readResult(id), logs |-> <<>>]
    /\ reports' = IF inBounds(id) THEN [reports EXCEPT ![id + 1].status = Reviewed]
                  ELSE reports
    /\ UNCHANGED <<reportsByReporter, acl, now, submitted>>

getReportData(id) ==
    /\ last' = [op |-> "getReportData", caller |-> NoCaller, id |-> NoId,
                result |-> readResult(id), logs |-> <<>>]
    /\ UNCHANGED <<reports, reportsByReporter, acl, now, submitted>>

getEncryptedKey(id) ==
    /\ last' = [op |-> "getEncryptedKey", caller |-> NoCaller, id |-> NoId,
                result |-> readResult(id), logs |-> <<>>]
    /\ UNCHANGED <<reports, reportsByReporter, acl, now, submitted>>

\* What the three views return for an id that exists.
getReportMetaRet(id) ==
    [reporter |-> reports[id + 1].reporter, title |-> reports[id + 1].title,
     createdAt |-> reports[id + 1].createdAt, status |-> reports[id + 1].status]
getReportDataRet(id) == reports[id + 1].encryptedData
getEncryptedKeyRet(id) == reports[id + 1].encryptedKey
\* ethers.ZeroHash: the handle of an eaddress that was never set.
ZeroHandle == <<"h", "0">>

\* View functions without a failure case.
getReportCount == Len(reports)
getReportCountByReporter(p) == Len(reportsByReporter[p])
getReportIdsByReporter(p) == reportsByReporter[p]

(***************************************************************************)
(* ChaCha20 (frontend/utils/chacha20.ts).                                   *)
(*                                                                          *)
(* A 32-bit word of a Uint32Array is the pair <<high half, low half>> of    *)
(* its 16-bit halves, so that every sum stays below 2^31.                   *)
(***************************************************************************)
\* The value of a const binding: the element of a singleton.  A name bound over
\* {e} holds the value of e, computed once.
The(S) == CHOOSE x \in S : TRUE
\* The array with the elements of f, all computed.
Array(f) == f \o <<>>

W16 == 65536
bit(a, k) == (a \div k) % 2
xbit(a, b, k) == (bit(a, k) + bit(b, k)) % 2
\* a ^ b on 4-bit values, tabulated.
Nib == [a \in 0..15 |-> [b \in 0..15 |->
          xbit(a, b, 1) + 2 * xbit(a, b, 2) + 4 * xbit(a, b, 4) + 8 * xbit(a, b, 8)]]
xor8_add(a, b) == (a + b) % 256

\* a ^ b on bytes, on half words and on words.
xor8(a, b) == 16 * Nib[a \div 16][b \div 16] + Nib[a % 16][b % 16]
xor16(a, b) == 256 * xor8(a \div 256, b \div 256) + xor8(a % 256, b % 256)
xor32(x, y) == <<xor16(x[1], y[1]), xor16(x[2], y[2])>>
\* state[a] += state[b] in a Uint32Array: the sum modulo 2^32.
add32(x, y) ==
    LET lo == x[2] + y[2]
    IN <<(x[1] + y[1] + (lo \div W16)) % W16, lo % W16>>

\* ((v << c) | (v >>> (32 - c))) >>> 0.
rotl32(v, c) ==
    LET s == IF c >= 16 THEN <<v[2], v[1]>> ELSE v
        k == c % 16
        p == 2^k
        q == 2^(16 - k)
    IN IF k = 0 THEN s
       ELSE <<(s[1] % q) * p + (s[2] \div q), (s[2] % q) * p + (s[1] \div q)>>

\* Statement k of quarterRound, applied to the array s (indexed from 0).
quarterStep(s, k, a, b, c, d) ==
    CASE k = 1 -> [s EXCEPT ![a + 1] = add32(s[a + 1], s[b + 1])]
      [] k = 2 -> [s EXCEPT ![d + 1] = rotl32(xor32(s[d + 1], s[a + 1]), 16)]
      [] k = 3 -> [s EXCEPT ![c + 1] = add32(s[c + 1], s[d + 1])]
      [] k = 4 -> [s EXCEPT ![b + 1] = rotl32(xor32(s[b + 1], s[c + 1]), 12)]
      [] k = 5 -> [s EXCEPT ![a + 1] = add32(s[a + 1], s[b + 1])]
      [] k = 6 -> [s EXCEPT ![d + 1] = rotl32(xor32(s[d + 1], s[a + 1]), 8)]
      [] k = 7 -> [s EXCEPT ![c + 1] = add32(s[c + 1], s[d + 1])]
      [] k = 8 -> [s EXCEPT ![b + 1] = rotl32(xor32(s[b + 1], s[c + 1]), 7)]

\* Statements k..8 of quarterRound in order.
RECURSIVE quarterFrom(_, _, _, _, _, _)
quarterFrom(s, k, a, b, c, d) ==
    IF k > 8 THEN s
    ELSE The({quarterFrom(t, k + 1, a, b, c, d) : t \in {quarterStep(s, k, a, b, c, d)}})

quarterRound(state, a, b, c, d) ==
    The({quarterFrom(s, 1, a, b, c, d) : s \in {state}})

doubleRound_columnsTwice(w) ==
    LET c1 == quarterRound(w, 0, 4, 8, 12)
        c2 == quarterRound(c1, 1, 5, 9, 13)
        c3 == quarterRound(c2, 2, 6, 10, 14)
        c4 == quarterRound(c3, 3, 7, 11, 15)
        d1 == quarterRound(c4, 0, 4, 8, 12)
        d2 == quarterRound(d1, 1, 5, 9, 13)
        d3 == quarterRound(d2, 2, 6, 10, 14)
        d4 == quarterRound(d3, 3, 7, 11, 15)
    IN d4

\* The body of the loop over the double rounds: four column rounds, then four
\* diagonal rounds.
doubleRound(w) ==
    LET c1 == quarterRound(w, 0, 4, 8, 12)
        c2 == quarterRound(c1, 1, 5, 9, 13)
        c3 == quarterRound(c2, 2, 6, 10, 14)
        c4 == quarterRound(c3, 3, 7, 11, 15)
        d1 == quarterRound(c4, 0, 5, 10, 15)
        d2 == quarterRound(d1, 1, 6, 11, 12)
        d3 == quarterRound(d2, 2, 7, 8, 13)
        d4 == quarterRound(d3, 3, 4, 9, 14)
    IN d4

\* for (let i = 0; i < n; i++) { double round }.
RECURSIVE rounds(_, _)
rounds(w, n) ==
    IF n = 0 THEN w
    ELSE The({rounds(v, n - 1) : v \in {doubleRound(w)}})

DoubleRounds == 10

\* arr[i] of a Uint8Array under |: an index past the end reads undefined,
\* which | takes as 0.
byteAt(arr, i) == IF i < Len(arr) THEN arr[i + 1] ELSE 0
\* (arr[o] | arr[o+1] << 8 | arr[o+2] << 16 | arr[o+3] << 24) >>> 0.
loadLE(arr, o) ==
    <<byteAt(arr, o + 2) + 256 * byteAt(arr, o + 3),
      byteAt(arr, o) + 256 * byteAt(arr, o + 1)>>
\* "expand 32-byte k".
constants ==
    <<101, 120, 112, 97, 110, 100, 32, 51, 50, 45, 98, 121, 116, 101, 32, 107>>
\* counter >>> 0.
toUint32(n) == <<(n \div W16) % W16, n % W16>>

\* The Uint32Array state after the four initialisation loops.
initState(key, counter, nonce) ==
    [i \in 1..16 |->
        IF i <= 4 THEN loadLE(constants, (i - 1) * 4)
        ELSE IF i <= 12 THEN loadLE(key, (i - 5) * 4)
        ELSE IF i = 13 THEN toUint32(counter)
        ELSE loadLE(nonce, (i - 14) * 4)]

\* view.setUint32(i * 4, working[i], true): the 16 words, little-endian.
serialize(words) ==
    [j \in 1..64 |->
        LET w == words[((j - 1) \div 4) + 1]
            k == (j - 1) % 4
        IN IF k = 0 THEN w[2] % 256
           ELSE IF k = 1 THEN w[2] \div 256
           ELSE IF k = 2 THEN w[1] % 256
           ELSE w[1] \div 256]

chacha20Block_noFeedForward(key, counter, nonce) ==
    The({serialize(working) :
            working \in {rounds(initState(key, counter, nonce), DoubleRounds)}})

chacha20Block(key, counter, nonce) ==
    The({The({The({serialize(sum) :
                      sum \in {[i \in 1..16 |-> add32(working[i], state[i])]}}) :
                 working \in {rounds(state, DoubleRounds)}}) :
            state \in {initState(key, counter, nonce)}})

BlockSize == 64
Min(a, b) == IF a < b THEN a ELSE b
Zeros(n) == [i \in 1..n |-> 0]

startCall_keepsCounter(input) ==
    [output |-> Zeros(Len(input)), counter |-> cipher.counter, pos |-> 0]

\* The locals of chacha20Encrypt before its loop.
startCall(input) == [output |-> Zeros(Len(input)), counter |-> 0, pos |-> 0]

loopBody_noCounterIncrement(key, nonce, input, loc) ==
    LET remaining == Len(input) - loc.pos
        blockSize == Min(BlockSize, remaining)
    IN The({[output |-> [i \in 1..Len(input) |->
                           IF loc.pos < i /\ i <= loc.pos + blockSize
                           THEN xor8(input[i], block[i - loc.pos])
                           ELSE loc.output[i]],
             pos |-> loc.pos + blockSize,
             counter |-> loc.counter,
             block |-> block, blockCtr |-> loc.counter] :
            block \in {chacha20Block(key, loc.counter, nonce)}})

\* One iteration of the while loop of chacha20Encrypt.
loopBody(key, nonce, input, loc) ==
    LET remaining == Len(input) - loc.pos
        blockSize == Min(BlockSize, remaining)
    IN The({[output |-> [i \in 1..Len(input) |->
                           IF loc.pos < i /\ i <= loc.pos + blockSize
                           THEN xor8(input[i], block[i - loc.pos])
                           ELSE loc.output[i]],
             pos |-> loc.pos + blockSize,
             counter |-> loc.counter + 1,
             block |-> block, blockCtr |-> loc.counter] :
            block \in {chacha20Block(key, loc.counter, nonce)}})

\* Key material and plaintexts the cipher is run on.
Key0 == Zeros(32)
Nonce0 == Zeros(12)
Key1 == [i \in 1..32 |-> i - 1]
Nonce1 == <<0, 0, 0, 9, 0, 0, 0, 74, 0, 0, 0, 0>>
KeyMaterial ==
    {<<Key0, Nonce0>>, <<Key1, Nonce1>>,
     <<[i \in 1..31 |-> 255 - i], Nonce1>>,
     <<Key1, [i \in 1..13 |-> 200 + i]>>,
     <<[i \in 1..33 |-> i], [i \in 1..11 |-> i]>>}
Bytes(n) == [i \in 1..n |-> (37 * i + 11) % 256]
Plaintexts == {Bytes(n) : n \in {0, 1, 63, 64, 65, 1000}}

NoBlock == <<>>
CipherIdle ==
    [pc |-> "idle", call |-> "none", key |-> <<>>, nonce |-> <<>>,
     plaintext |-> <<>>, input |-> <<>>, output |-> <<>>, pos |-> 0,
     counter |-> 0, block |-> NoBlock, blockCtr |-> 0, result |-> "none",
     ciphertext |-> <<>>]

\* The arguments of the calls to come.
CipherInputs(key, nonce, plaintext) ==
    [CipherIdle EXCEPT !.pc = "call", !.key = key, !.nonce = nonce,
                       !.plaintext = plaintext]

\* chacha20Encrypt(key, nonce, plaintext) is called.
CallEncrypt(key, nonce, plaintext) ==
    LET loc == startCall(plaintext)
    IN [pc |-> "loop", call |-> "encrypt", key |-> key, nonce |-> nonce,
        plaintext |-> plaintext, input |-> plaintext, output |-> loc.output,
        pos |-> loc.pos, counter |-> loc.counter, block |-> NoBlock,
        blockCtr |-> 0, result |-> "none", ciphertext |-> <<>>]

\* const ct = chacha20Encrypt(key, nonce, ptBytes).
FirstEncrypt ==
    /\ cipher.pc = "call"
    /\ cipher' = CallEncrypt(cipher.key, cipher.nonce, cipher.plaintext)

\* while (pos < plaintext.length) { ... }
EncryptLoop ==
    /\ cipher.pc = "loop"
    /\ cipher.pos < Len(cipher.input)
    /\ \E n \in {loopBody(cipher.key, cipher.nonce, cipher.input,
                          [output |-> cipher.output, pos |-> cipher.pos,
                           counter |-> cipher.counter])} :
          cipher' = [cipher EXCEPT !.output = n.output, !.pos = n.pos,
                                   !.counter = n.counter, !.block = n.block,
                                   !.blockCtr = n.blockCtr]

\* return ciphertext.
EncryptReturn ==
    /\ cipher.pc = "loop"
    /\ ~(cipher.pos < Len(cipher.input))
    /\ cipher' = [cipher EXCEPT !.pc = "returned", !.result = "ok",
                                !.ciphertext = IF cipher.call = "encrypt"
                                               THEN cipher.output
                                               ELSE cipher.ciphertext]

\* chacha20Decrypt(key, nonce, ciphertext), applied to what chacha20Encrypt
\* returned: return chacha20Encrypt(key, nonce, ciphertext).
CallDecrypt ==
    /\ cipher.pc = "returned"
    /\ cipher.call = "encrypt"
    /\ LET loc == startCall(cipher.output)
       IN cipher' = [cipher EXCEPT !.pc = "loop", !.call = "decrypt",
                                   !.input = cipher.output,
                                   !.output = loc.output, !.pos = loc.pos,
                                   !.counter = loc.counter,
                                   !.block = NoBlock, !.blockCtr = 0,
                                   !.result = "none"]

\* chacha20Encrypt is called once more with the arguments of the first call,
\* after the call of chacha20Decrypt.
SecondEncrypt ==
    /\ cipher.pc = "returned"
    /\ cipher.call = "decrypt"
    /\ cipher' = [CallEncrypt(cipher.key, cipher.nonce, cipher.plaintext)
                    EXCEPT !.call = "encrypt again",
                           !.ciphertext = cipher.ciphertext]

(***************************************************************************)
(* Byte and string utilities of the clients (frontend/components).          *)
(*                                                                          *)
(* A string of hex digits is a sequence of one-character strings; a text    *)
(* (the report content) is the sequence of its code points, a value in      *)
(* 55296..57343 standing for an unpaired surrogate.                         *)
(***************************************************************************)
HexDigits == <<"0", "1", "2", "3", "4", "5", "6", "7",
               "8", "9", "a", "b", "c", "d", "e", "f">>
UpperHex == [c \in {"a", "b", "c", "d", "e", "f", "x"} |->
               CASE c = "a" -> "A" [] c = "b" -> "B" [] c = "c" -> "C"
                 [] c = "d" -> "D" [] c = "e" -> "E" [] c = "f" -> "F"
                 [] c = "x" -> "X"]
\* String.prototype.toLowerCase on one character, and on a string.
lowerChar(c) ==
    IF \E l \in DOMAIN UpperHex : UpperHex[l] = c
    THEN CHOOSE l \in DOMAIN UpperHex : UpperHex[l] = c
    ELSE c
toLowerCase(str) == Array([i \in 1..Len(str) |-> lowerChar(str[i])])
\* b.toString(16).padStart(2, "0").
toHex2(b) == <<HexDigits[(b \div 16) + 1], HexDigits[(b % 16) + 1]>>
\* parseInt(digits, 16) on two hex digits of either case.
hexValue(c) == (CHOOSE k \in 1..16 : HexDigits[k] = lowerChar(c)) - 1
parseInt16(d) == 16 * hexValue(d[1]) + hexValue(d[2])
\* str.slice(from, to) with 0 <= from <= to.
slice(str, from, to) == SubSeq(str, from + 1, Min(to, Len(str)))

\* "0x" + Array.from(bytes).map(...).join("").
bytesToHex(bytes) ==
    The({<<"0", "x">> \o [k \in 1..(2 * Len(b)) |->
                            toHex2(b[(k + 1) \div 2])[2 - (k % 2)]] :
            b \in {Array(bytes)}})
hexToBytes(hex) ==
    The({Array([i \in 1..(Len(cleanHex) \div 2) |->
                  parseInt16(slice(cleanHex, (i - 1) * 2, (i - 1) * 2 + 2))]) :
            cleanHex \in {IF Len(hex) >= 2 /\ hex[1] = "0" /\ hex[2] = "x"
                           THEN slice(hex, 2, Len(hex)) ELSE hex}})
\* concatBytes(a, b).
concatBytes(a, b) == a \o b

\* The char code of a character of an address string (toUtf8Bytes).
charCode(c) ==
    CASE c = "x" -> 120 [] c = "X" -> 88
      [] c \in {"a", "b", "c", "d", "e", "f"} -> 97 + hexValue(c) - 10
      [] c \in {"A", "B", "C", "D", "E", "F"} -> 65 + hexValue(c) - 10
      [] OTHER -> 48 + hexValue(c)
toUtf8Bytes(str) == Array([i \in 1..Len(str) |-> charCode(str[i])])

\* TextEncoder.encode: UTF-8 of one code point; an unpaired surrogate is
\* encoded as U+FFFD.
encodePoint(cp) ==
    LET c == IF cp >= 55296 /\ cp <= 57343 THEN 65533 ELSE cp
    IN IF c < 128 THEN <<c>>
       ELSE IF c < 2048 THEN <<192 + (c \div 64), 128 + (c % 64)>>
       ELSE IF c < 65536
            THEN <<224 + (c \div 4096), 128 + ((c \div 64) % 64), 128 + (c % 64)>>
       ELSE <<240 + (c \div 262144), 128 + ((c \div 4096) % 64),
              128 + ((c \div 64) % 64), 128 + (c % 64)>>
RECURSIVE utf8ToBytes(_)
utf8ToBytes(str) ==
    IF str = <<>> THEN <<>> ELSE encodePoint(Head(str)) \o utf8ToBytes(Tail(str))

\* The UTF-8 decoder of TextDecoder (not fatal): the code points of the
\* bytes from position i on; a byte that starts no well-formed sequence
\* gives U+FFFD.
cont(bytes, i) == i <= Len(bytes) /\ bytes[i] >= 128 /\ bytes[i] < 192
RECURSIVE decodeFrom(_, _)
decodeFrom(bytes, i) ==
    IF i > Len(bytes) THEN <<>>
    ELSE LET b == bytes[i]
         IN IF b < 128 THEN <<b>> \o decodeFrom(bytes, i + 1)
            ELSE IF b >= 194 /\ b < 224 /\ cont(bytes, i + 1)
                 THEN <<(b - 192) * 64 + (bytes[i + 1] - 128)>>
                         \o decodeFrom(bytes, i + 2)
            ELSE IF /\ b >= 224 /\ b < 240 /\ cont(bytes, i + 1) /\ cont(bytes, i + 2)
                    /\ (b - 224) * 4096 + (bytes[i + 1] - 128) * 64 >= 2048
                    /\ ~(b = 237 /\ bytes[i + 1] >= 160)
                 THEN <<(b - 224) * 4096 + (bytes[i + 1] - 128) * 64
                          + (bytes[i + 2] - 128)>> \o decodeFrom(bytes, i + 3)
            ELSE IF /\ b >= 240 /\ b < 245 /\ cont(bytes, i + 1) /\ cont(bytes, i + 2)
                    /\ cont(bytes, i + 3)
                    /\ (b - 240) * 262144 + (bytes[i + 1] - 128) * 4096 >= 65536
                    /\ (b - 240) * 262144 + (bytes[i + 1] - 128) * 4096 < 1114112
                 THEN <<(b - 240) * 262144 + (bytes[i + 1] - 128) * 4096
                          + (bytes[i + 2] - 128) * 64 + (bytes[i + 3] - 128)>>
                         \o decodeFrom(bytes, i + 4)
            ELSE <<65533>> \o decodeFrom(bytes, i + 1)
\* new TextDecoder().decode(bytes): ignoreBOM is false, so a leading byte
\* order mark EF BB BF is dropped before decoding.
bytesToUtf8(bytes) ==
    IF Len(bytes) >= 3 /\ bytes[1] = 239 /\ bytes[2] = 187 /\ bytes[3] = 191
    THEN decodeFrom(bytes, 4)
    ELSE decodeFrom(bytes, 1)

\* String.prototype.trim leaves nothing: every character is white space.
WhiteSpace == {9, 10, 11, 12, 13, 32, 160, 65279}
trimIsEmpty(str) == \A i \in 1..Len(str) : str[i] \in WhiteSpace

\* keccak256 of ethers, which is not part of this repository: a fixed function
\* from byte strings to "0x" and 64 hex digits, here a position-weighted sum
\* per digest byte.
RECURSIVE weighted(_, _, _)
weighted(bytes, j, i) ==
    IF j > Len(bytes) THEN 0
    ELSE ((j + i) * bytes[j] + weighted(bytes, j + 1, i)) % 256
keccak256(bytes) ==
    The({bytesToHex(Array([i \in 1..32 |->
                              (weighted(b, 1, i) + 31 * i + Len(b)) % 256])) :
            b \in {Array(bytes)}})

\* deriveKeyFromPasswordAddress of ReportSubmit.tsx.
deriveKeyFromPasswordAddress(passwordAddress) ==
    The({Array([k \in 1..32 |->
                  parseInt16(slice(hash, 2 + (k - 1) * 2, 4 + (k - 1) * 2))]) :
            hash \in {keccak256(toUtf8Bytes(toLowerCase(passwordAddress)))}})

deriveKeyOfList_noLowerCase(passwordAddress) ==
    The({Array([k \in 1..32 |->
                  parseInt16(slice(hash, 2 + (k - 1) * 2, 4 + (k - 1) * 2))]) :
            hash \in {keccak256(toUtf8Bytes(passwordAddress))}})

\* deriveKeyFromPasswordAddress of ReportList.tsx.
deriveKeyOfList(passwordAddress) ==
    The({Array([k \in 1..32 |->
                  parseInt16(slice(hash, 2 + (k - 1) * 2, 4 + (k - 1) * 2))]) :
            hash \in {keccak256(toUtf8Bytes(toLowerCase(passwordAddress)))}})

\* chacha20Encrypt as a function: the loop run to its end.
RECURSIVE encryptFrom(_, _, _, _)
encryptFrom(key, nonce, input, loc) ==
    IF loc.pos < Len(input)
    THEN The({encryptFrom(key, nonce, input, n) :
                 n \in {loopBody(key, nonce, input, loc)}})
    ELSE loc.output
chacha20Encrypt(key, nonce, plaintext) ==
    The({encryptFrom(key, nonce, plaintext, loc) : loc \in {startCall(plaintext)}})
chacha20Decrypt(key, nonce, ciphertext) == chacha20Encrypt(key, nonce, ciphertext)

(***************************************************************************)
(* FHECounter (contracts/CityGuard.sol, second contract).                   *)
(*                                                                          *)
(* An euint32 is the pair of 16-bit halves of its clear value.  Besides the *)
(* contract's _count, fheCounter.sum is the sum of the successful           *)
(* increments minus the successful decrements, computed without wrapping    *)
(* (its high half is not reduced).                                          *)
(***************************************************************************)
\* The clear values callers encrypt, and the handles they send: a handle is
\* bound to the user it was created for.
IncrementValues == {1000000, 1000001}
DecrementValues == {1000000, 2000000}
CounterHandles(values) == {<<v, p>> : v \in values, p \in Principals}
\* FHE.fromExternal(inputEuint32, inputProof) accepts the input.
counterInputOK(handle, inputProof, sender) ==
    inputProof = "proof" /\ handle[2] = sender

\* FHE.le and FHE.ge on euint32: unsigned comparison.
le32(x, y) == x[1] < y[1] \/ (x[1] = y[1] /\ x[2] <= y[2])
ge32(x, y) == le32(y, x)
\* FHE.sub on euint32: the difference modulo 2^32.
sub32(x, y) ==
    LET lo == x[2] - y[2]
        borrow == IF lo < 0 THEN 1 ELSE 0
    IN <<(x[1] - y[1] - borrow) % W16, lo % W16>>
\* The sum and the difference without reduction of the high half.
exactAdd(x, y) ==
    LET lo == x[2] + y[2]
    IN <<x[1] + y[1] + (lo \div W16), lo % W16>>
exactSub(x, y) ==
    LET lo == x[2] - y[2]
        borrow == IF lo < 0 THEN 1 ELSE 0
    IN <<x[1] - y[1] - borrow, lo % W16>>

\* FHE.asEuint32(1000000).
maxAllowed == toUint32(1000000)

\* The state after deployment: _count is the uninitialised handle, which the
\* FHE library reads as 0; nobody is allowed on it.
CounterDeployed ==
    [count |-> <<0, 0>>, allowed |-> {}, sum |-> <<0, 0>>,
     op |-> "deploy", input |-> 0, result |-> "ok"]

\* The sum is kept below MaxSumHigh * 2^16.
MaxSumHigh == 65537

\* The require of increment.
incrementCheck(value) ==
    IF le32(toUint32(value), maxAllowed) THEN "ok" ELSE "Input value too large"

decrementCheck_noCheck(count, value) == "ok"

\* The require of decrement.
decrementCheck(count, value) ==
    IF ge32(count, toUint32(value)) THEN "ok"
    ELSE "Underflow: cannot subtract more than current count"

increment(sender, inputEuint32, inputProof) ==
    LET value == inputEuint32[1]
        res == IF ~counterInputOK(inputEuint32, inputProof, sender)
               THEN "InvalidProof"
               ELSE incrementCheck(value)
    IN /\ fheCounter.sum[1] < MaxSumHigh
       /\ fheCounter' =
            IF res = "ok"
            THEN [count |-> add32(fheCounter.count, toUint32(value)),
                  allowed |-> {Contract, sender},
                  sum |-> exactAdd(fheCounter.sum, toUint32(value)),
                  op |-> "increment", input |-> value, result |-> "ok"]
            ELSE [fheCounter EXCEPT !.op = "increment", !.input = value,
                                    !.result = res]

decrement(sender, inputEuint32, inputProof) ==
    LET value == inputEuint32[1]
        res == IF ~counterInputOK(inputEuint32, inputProof, sender)
               THEN "InvalidProof"
               ELSE decrementCheck(fheCounter.count, value)
    IN fheCounter' =
            IF res = "ok"
            THEN [count |-> sub32(fheCounter.count, toUint32(value)),
                  allowed |-> {Contract, sender},
                  sum |-> exactSub(fheCounter.sum, toUint32(value)),
                  op |-> "decrement", input |-> value, result |-> "ok"]
            ELSE [fheCounter EXCEPT !.op = "decrement", !.input = value,
                                    !.result = res]

\* getCount().
getCount == fheCounter.count

(***************************************************************************)
(* The submitting client (ReportSubmit.tsx) and the decrypting client       *)
(* (ReportItem of ReportList.tsx) of one connected wallet.                  *)
(*                                                                          *)
(* handleSubmit is a closure of the render it was created in: it reads the  *)
(* title, content and retryCount of that render (client.closure), while     *)
(* setRetryCount(prev => prev + 1) updates the component state              *)
(* (client.retryCount).  Each await of handleSubmit is a step.              *)
(***************************************************************************)
\* The connected account.
Wallet == "alice"
MaxAttempts == 5
MaxActions == 1

\* What the user types: a title and a content (code points).  The first
\* content has characters of 1, 2, 3 and 4 bytes, the second starts with
\* U+FEFF; the blank ones are refused by the form check.
Titles == {"T", " "}
Contents == {<<104, 233, 8364, 128512>>, <<65279, 104>>, <<32>>}
titleIsBlank_onlyEmpty(title) == title = ""
titleIsBlank(title) == title \in {"", " "}

\* crypto.getRandomValues: the r-th output of the generator, n bytes long.
\* Successive outputs of the generator differ.
randomBytes(n, r) == Array([i \in 1..n |-> (89 * r + 47 * i + 171) % 256])
generateRandomAddress(r) == bytesToHex(randomBytes(20, r))

\* The messages the awaited calls fail with.
NetworkErrors == {"could not detect network", "timeout exceeded", "connection refused"}
OtherErrors == {"user rejected"}
\* errorMessage.includes("network") || includes("timeout") || includes("connection").
isNetworkError(errorMessage) == errorMessage \in NetworkErrors

NoTx == [title |-> "", data |-> <<>>, handle |-> <<>>, action |-> 0]
NoDecrypt ==
    [done |-> FALSE, id |-> 0, passwordAddress |-> <<>>, nonce |-> <<>>,
     ct |-> <<>>, key |-> <<>>, text |-> <<>>]
ClientMounted ==
    [pc |-> "idle", title |-> "", content |-> <<>>, retryCount |-> 0,
     isSubmitting |-> FALSE, isConfirming |-> FALSE, success |-> FALSE,
     error |-> "null",
     closure |-> [title |-> "", content |-> <<>>, retryCount |-> 0,
                  ethersSigner |-> TRUE],
     password |-> <<>>, nonce |-> <<>>, data |-> <<>>, tx |-> NoTx,
     rng |-> 0, pending |-> <<>>, origin |-> <<>>, action |-> 0, retries |-> 0,
     used |-> <<>>, dec |-> NoDecrypt]

handleSubmitStart_drawsOncePerClick(c, cl) ==
    IF ~cl.ethersSigner
    THEN [c EXCEPT !.pc = "idle", !.closure = cl,
                   !.error = "Please connect your wallet first"]
    ELSE IF titleIsBlank(cl.title) \/ trimIsEmpty(cl.content)
    THEN [c EXCEPT !.pc = "idle", !.closure = cl,
                   !.error = "Please enter both title and content"]
    ELSE The({The({The({The({The({
           [c EXCEPT !.pc = "encrypt", !.closure = cl,
                     !.isSubmitting = TRUE, !.success = FALSE,
                     !.error = "null",
                     !.password = password, !.nonce = nonce,
                     !.data = concatBytes(nonce, ct),
                     !.rng = c.rng + 2,
                     !.used = Append(c.used, [password |-> password,
                                              key |-> key, nonce |-> nonce,
                                              content |-> cl.content])] :
              ct \in {chacha20Encrypt(key, nonce, ptBytes)}}) :
              ptBytes \in {utf8ToBytes(cl.content)}}) :
              nonce \in {IF c.retries > 0 THEN c.nonce
                         ELSE randomBytes(12, c.rng + 1)}}) :
              key \in {deriveKeyFromPasswordAddress(password)}}) :
              password \in {IF c.retries > 0 THEN c.password
                            ELSE generateRandomAddress(c.rng)}})

\* handleSubmit up to its first await (lines 58-88), run by the closure cl.
handleSubmitStart(c, cl) ==
    IF ~cl.ethersSigner
    THEN [c EXCEPT !.pc = "idle", !.closure = cl,
                   !.error = "Please connect your wallet first"]
    ELSE IF titleIsBlank(cl.title) \/ trimIsEmpty(cl.content)
    THEN [c EXCEPT !.pc = "idle", !.closure = cl,
                   !.error = "Please enter both title and content"]
    ELSE The({The({The({The({The({
           [c EXCEPT !.pc = "encrypt", !.closure = cl,
                     !.isSubmitting = TRUE, !.success = FALSE,
                     !.error = "null",
                     !.password = password, !.nonce = nonce,
                     !.data = concatBytes(nonce, ct),
                     !.rng = c.rng + 2,
                     !.used = Append(c.used, [password |-> password,
                                              key |-> key, nonce |-> nonce,
                                              content |-> cl.content])] :
              ct \in {chacha20Encrypt(key, nonce, ptBytes)}}) :
              ptBytes \in {utf8ToBytes(cl.content)}}) :
              nonce \in {randomBytes(12, c.rng + 1)}}) :
              key \in {deriveKeyFromPasswordAddress(password)}}) :
              password \in {generateRandomAddress(c.rng)}})

\* The catch and finally blocks of handleSubmit (lines 106-128).  retryCount
\* on lines 112 and 114 is the one of the closure.
catch(c, errorMessage) ==
    IF isNetworkError(errorMessage)
    THEN IF c.closure.retryCount < 3
         THEN [c EXCEPT !.pc = "timer", !.retryCount = c.retryCount + 1,
                        !.error = <<"Network error (attempt",
                                    c.closure.retryCount + 1,
                                    "/3). Retrying...">>,
                        !.isConfirming = FALSE, !.isSubmitting = FALSE]
         ELSE [c EXCEPT !.pc = "idle", !.retryCount = 0,
                        !.error = "Network error: Maximum retry attempts reached. Please try again later.",
                        !.isConfirming = FALSE, !.isSubmitting = FALSE]
    ELSE [c EXCEPT !.pc = "idle", !.retryCount = 0, !.error = errorMessage,
                   !.isConfirming = FALSE, !.isSubmitting = FALSE]

\* canSubmit of the render (line 135); the address, the contract address and
\* the FHE instance are there and the instance is not loading.
canSubmit(c) == ~c.isSubmitting

\* The user fills in the form and submits it: the handleSubmit of the current
\* render runs, with the signer of that render or without one.  (The button
\* is enabled; the model follows one submit action at a time.)
Click(title, content, ethersSigner) ==
    /\ client.pc = "idle"
    /\ canSubmit(client)
    /\ client.action < MaxActions
    /\ Len(client.used) < MaxAttempts
    /\ client' = handleSubmitStart(
                    [client EXCEPT !.title = title, !.content = content,
                                   !.action = client.action + 1, !.retries = 0],
                    [title |-> title, content |-> content,
                     retryCount |-> client.retryCount,
                     ethersSigner |-> ethersSigner])

\* await input.encrypt() returns or throws (lines 86-99).
EncryptDone(outcome) ==
    /\ client.pc = "encrypt"
    /\ client' =
         IF outcome = "ok"
         THEN [client EXCEPT !.pc = "send", !.isConfirming = TRUE]
         ELSE catch(client, outcome)

\* The transaction of lines 94-99: the title of the closure, the payload as
\* the node decodes its hex string, the handle of the encrypted password.
transaction(c) ==
    [title |-> c.closure.title,
     data |-> hexToBytes(bytesToHex(c.data)),
     handle |-> <<"h", Wallet, c.password>>,
     action |-> c.action]

\* await contract.submitReport(...) returns once the transaction is sent, or
\* throws before it is.  The transactions of one account are stored in the
\* order they were sent in.
SendDone(outcome) ==
    /\ client.pc = "send"
    /\ client' =
         IF outcome = "ok"
         THEN The({[client EXCEPT !.pc = "wait", !.tx = tx,
                                  !.pending = Append(client.pending, tx)] :
                     tx \in {transaction(client)}})
         ELSE catch(client, outcome)

\* await tx.wait() returns after the transaction was stored (lines 100-105,
\* 126-127).
WaitReturns ==
    /\ client.pc = "wait"
    /\ \A i \in 1..Len(client.pending) : client.pending[i] # client.tx
    /\ client' = [client EXCEPT !.pc = "idle", !.success = TRUE,
                                !.title = "", !.content = <<>>,
                                !.retryCount = 0,
                                !.isConfirming = FALSE, !.isSubmitting = FALSE]

\* await tx.wait() throws: the connection to the node failed or the wait
\* timed out, whatever became of the transaction.
WaitThrows(errorMessage) ==
    /\ client.pc = "wait"
    /\ client' = catch(client, errorMessage)

\* setTimeout(() => handleSubmit(e), 2000) fires: the same closure runs again.
RetryTimer ==
    /\ client.pc = "timer"
    /\ Len(client.used) < MaxAttempts
    /\ client' = handleSubmitStart([client EXCEPT !.retries = client.retries + 1],
                                   client.closure)

\* The ledger stores a transaction that was sent, in a new block.
Commit(tx, timestamp) ==
    /\ client.pending # <<>>
    /\ tx = Head(client.pending)
    /\ submitReport(Wallet, tx.title, tx.data, tx.handle, "proof", timestamp)
    /\ client' = [client EXCEPT !.pending = Tail(client.pending),
                                !.origin = Append(client.origin, tx.action)]

\* instance.userDecrypt on an address: the address the handle encrypts, in
\* one of the spellings of its hex letters.
Spellings(address) ==
    {address,
     Array([i \in 1..Len(address) |->
              IF i > 2 /\ i % 2 = 0 /\ address[i] \in DOMAIN UpperHex
              THEN UpperHex[address[i]] ELSE address[i]])}

decrypt_splitAt16(encryptedData, passwordAddress) ==
    The({The({The({The({The({
       [passwordAddress |-> passwordAddress, nonce |-> nonce, ct |-> ct,
        key |-> key, text |-> bytesToUtf8(pt)] :
          pt \in {chacha20Decrypt(key, nonce, ct)}}) :
          key \in {deriveKeyOfList(passwordAddress)}}) :
          ct \in {slice(allBytes, 16, Len(allBytes))}}) :
          nonce \in {slice(allBytes, 0, 16)}}) :
          allBytes \in {hexToBytes(encryptedData)}})

\* Lines 257-263 of decrypt.
decrypt(encryptedData, passwordAddress) ==
    The({The({The({The({The({
       [passwordAddress |-> passwordAddress, nonce |-> nonce, ct |-> ct,
        key |-> key, text |-> bytesToUtf8(pt)] :
          pt \in {chacha20Decrypt(key, nonce, ct)}}) :
          key \in {deriveKeyOfList(passwordAddress)}}) :
          ct \in {slice(allBytes, 12, Len(allBytes))}}) :
          nonce \in {slice(allBytes, 0, 12)}}) :
          allBytes \in {hexToBytes(encryptedData)}})

\* The reporter decrypts report id (ReportItem.decrypt): the reads, the user
\* decryption of the password and the deciphering.  The fields read never
\* change once stored, so the awaits in between are not separate steps.
\* (The model follows a decryption while no submission is under way.)
Decrypt(id, passwordAddress) ==
    /\ client.pc = "idle"
    /\ client.pending = <<>>
    /\ inBounds(id)
    /\ ~(client.dec.done /\ client.dec.id = id
                           /\ client.dec.passwordAddress = passwordAddress)
    /\ <<getEncryptedKeyRet(id), Wallet>> \in acl
    /\ passwordAddress \in Spellings(getEncryptedKeyRet(id)[3])
    /\ \E d \in {decrypt(bytesToHex(getReportDataRet(id)), passwordAddress)} :
          client' = [client EXCEPT !.dec =
                        [done |-> TRUE, id |-> id,
                         passwordAddress |-> d.passwordAddress,
                         nonce |-> d.nonce, ct |-> d.ct, key |-> d.key,
                         text |-> d.text]]

(***************************************************************************)
(* ReportList (frontend/components/ReportList.tsx): fetchReports.  A call   *)
(* reads the ids of the connected address, then the metadata of each id,    *)
(* one await after the other; calls started for different addresses or by   *)
(* the refresh button run side by side and end in any order.                *)
(***************************************************************************)
MaxFetches == 2

\* useAccount().address before a wallet is connected.
NoAddress == "undefined"
\* The messages an awaited read fails with.
FetchErrors == {"could not detect network", "user rejected", "call revert exception"}

\* ReportList after mount without a wallet: fetchReports returned at line 60.
ListMounted ==
    [address |-> NoAddress, reports |-> <<>>, loading |-> FALSE,
     error |-> "null", fetches |-> <<>>,
     last |-> [op |-> "mount", fetch |-> 0]]

\* fetchReports up to its first await (lines 60-67), for address a.
fetchStart(l, a) ==
    [l EXCEPT !.loading = TRUE, !.error = "null",
              !.fetches = Append(l.fetches,
                                 [address |-> a, stage |-> "ids", ids |-> <<>>,
                                  data |-> <<>>]),
              !.last = [op |-> "start", fetch |-> Len(l.fetches) + 1]]

compare_oldestFirst(a, b) == a.createdAt - b.createdAt
\* (a, b) => Number(b.createdAt - a.createdAt).
compare(a, b) == b.createdAt - a.createdAt

\* Array.prototype.sort with compare: a stable sort.  insert puts x, which
\* came after the elements of sorted, behind those that do not sort after it.
RECURSIVE insert(_, _)
insert(x, sorted) ==
    IF sorted = <<>> THEN <<x>>
    ELSE IF compare(Head(sorted), x) <= 0
         THEN <<Head(sorted)>> \o insert(x, Tail(sorted))
         ELSE <<x>> \o sorted
RECURSIVE sort(_)
sort(reportData) ==
    IF reportData = <<>> THEN <<>>
    ELSE insert(reportData[Len(reportData)],
                sort(SubSeq(reportData, 1, Len(reportData) - 1)))

\* Lines 84-86 and 96-98: the loop is over; sort, setReports, setLoading(false).
fetchSucceeds(l, f, ids, reportData) ==
    [l EXCEPT !.reports = sort(reportData), !.loading = FALSE,
              !.fetches[f] = [@ EXCEPT !.stage = "done", !.ids = ids,
                                       !.data = <<>>],
              !.last = [op |-> "done", fetch |-> f]]

\* The catch and finally blocks (lines 87-98).
fetchFails(l, f, errorMessage) ==
    [l EXCEPT !.error =
                 IF errorMessage = "could not detect network"
                 THEN "Network error: Please check your connection and try again"
                 ELSE IF errorMessage = "user rejected"
                 THEN "Transaction was rejected by user"
                 ELSE "Failed to fetch reports. Please try again later.",
              !.loading = FALSE,
              !.fetches[f] = [@ EXCEPT !.stage = "failed", !.data = <<>>],
              !.last = [op |-> "failed", fetch |-> f]]

\* One ReportMeta of reportData (lines 74-81).
reportMeta(id) ==
    [id |-> id, reporter |-> getReportMetaRet(id).reporter,
     title |-> getReportMetaRet(id).title,
     createdAt |-> getReportMetaRet(id).createdAt,
     status |-> getReportMetaRet(id).status]

\* The wallet connects or switches to another account: the component renders
\* with the new address and the effect of lines 99-101 runs fetchReports.
AccountChanged(a) ==
    /\ a # list.address
    /\ Len(list.fetches) < MaxFetches
    /\ list' = fetchStart([list EXCEPT !.address = a], a)

\* The Try Again or Refresh button (lines 139, 163), shown when nothing is
\* loading and an error or a list is on display.
Refresh ==
    /\ list.address # NoAddress
    /\ ~list.loading
    /\ list.error # "null" \/ list.reports # <<>>
    /\ Len(list.fetches) < MaxFetches
    /\ list' = fetchStart(list, list.address)

\* await contract.getReportIdsByReporter(address) returns to call f
\* (line 69); with no id the loop is skipped.
IdsReturn(f) ==
    /\ f \in 1..Len(list.fetches)
    /\ list.fetches[f].stage = "ids"
    /\ \E ids \in {getReportIdsByReporter(list.fetches[f].address)} :
          list' = IF ids = <<>>
                  THEN fetchSucceeds(list, f, ids, <<>>)
                  ELSE [list EXCEPT !.fetches[f].stage = "meta",
                                    !.fetches[f].ids = ids,
                                    !.last = [op |-> "ids", fetch |-> f]]

\* await contract.getReportMeta(id) returns to call f (lines 73-81).
MetaReturn(f) ==
    /\ f \in 1..Len(list.fetches)
    /\ list.fetches[f].stage = "meta"
    /\ \E reportData \in {Append(list.fetches[f].data,
                                reportMeta(list.fetches[f].ids[Len(list.fetches[f].data) + 1]))} :
          list' = IF Len(reportData) = Len(list.fetches[f].ids)
                  THEN fetchSucceeds(list, f, list.fetches[f].ids, reportData)
                  ELSE [list EXCEPT !.fetches[f].data = reportData,
                                    !.last = [op |-> "meta", fetch |-> f]]

\* An awaited read of call f throws.
FetchThrows(f, errorMessage) ==
    /\ f \in 1..Len(list.fetches)
    /\ list.fetches[f].stage \in {"ids", "meta"}
    /\ list' = fetchFails(list, f, errorMessage)

\* block.timestamp never goes backwards: a transaction is included in the
\* latest block or in a later one.
Timestamps == {now, now + 1}

\* The contract is deployed; no cipher call is running.
Init ==
    /\ InitContract /\ cipher = CipherIdle /\ fheCounter = CounterDeployed
    /\ client = ClientMounted /\ list = ListMounted

\* The cipher is called on some key material and plaintext.
InitCipher ==
    /\ InitContract
    /\ fheCounter = CounterDeployed
    /\ client = ClientMounted
    /\ list = ListMounted
    /\ \E km \in KeyMaterial, pt \in Plaintexts :
          cipher = CipherInputs(km[1], km[2], pt)

Next ==
    \/ \E s \in Principals, in \in ValidInputs, k \in ExternalHandles, pr \in Proofs :
          \E ts \in Timestamps : submitReport(s, in[1], in[2], k, pr, ts) /\ UNCHANGED notCityGuard
    \/ \E s \in Principals, id \in Ids, st \in ReportStatus :
          updateReportStatus(s, id, st) /\ UNCHANGED notCityGuard
    \/ \E id \in Ids : getReportMeta(id) /\ UNCHANGED notCityGuard
    \/ \E id \in Ids : getReportData(id) /\ UNCHANGED notCityGuard
    \/ \E id \in Ids : getEncryptedKey(id) /\ UNCHANGED notCityGuard

\* The same contract, called with any title and payload.
NextAnyInput ==
    \/ \E s \in Principals, in \in AnyInputs, k \in ExternalHandles, pr \in Proofs :
          \E ts \in Timestamps : submitReport(s, in[1], in[2], k, pr, ts) /\ UNCHANGED notCityGuard
    \/ \E s \in Principals, id \in Ids, st \in ReportStatus :
          updateReportStatus(s, id, st) /\ UNCHANGED notCityGuard
    \/ \E id \in Ids : getReportMeta(id) /\ UNCHANGED notCityGuard
    \/ \E id \in Ids : getReportData(id) /\ UNCHANGED notCityGuard
    \/ \E id \in Ids : getEncryptedKey(id) /\ UNCHANGED notCityGuard

\* Encrypt, decrypt what came out, then encrypt the same plaintext again.
NextCipher ==
    \/ FirstEncrypt /\ UNCHANGED notCipher
    \/ EncryptLoop /\ UNCHANGED notCipher
    \/ EncryptReturn /\ UNCHANGED notCipher
    \/ CallDecrypt /\ UNCHANGED notCipher
    \/ SecondEncrypt /\ UNCHANGED notCipher

NextCounter ==
    \/ \E s \in Principals, h \in CounterHandles(IncrementValues), pr \in Proofs :
          increment(s, h, pr) /\ UNCHANGED notCounter
    \/ \E s \in Principals, h \in CounterHandles(DecrementValues), pr \in Proofs :
          decrement(s, h, pr) /\ UNCHANGED notCounter

\* The list of a wallet that switches between accounts while reports are
\* submitted.
NextList ==
    \/ \E a \in Principals : AccountChanged(a) /\ UNCHANGED <<ledger, notList>>
    \/ Refresh /\ UNCHANGED <<ledger, notList>>
    \/ \E f \in 1..MaxFetches : IdsReturn(f) /\ UNCHANGED <<ledger, notList>>
    \/ \E f \in 1..MaxFetches : MetaReturn(f) /\ UNCHANGED <<ledger, notList>>
    \/ \E f \in 1..MaxFetches, m \in FetchErrors :
          FetchThrows(f, m) /\ UNCHANGED <<ledger, notList>>
    \/ \E s \in Principals, ts \in Timestamps :
          submitReport(s, "T", <<7>>, <<"h", s>>, "proof", ts) /\ UNCHANGED notCityGuard

NextClient ==
    \/ \E t \in Titles, c \in Contents, es \in BOOLEAN :
          Click(t, c, es) /\ UNCHANGED <<ledger, notClient>>
    \/ \E o \in {"ok"} \cup NetworkErrors \cup OtherErrors :
          EncryptDone(o) /\ UNCHANGED <<ledger, notClient>>
    \/ \E o \in {"ok"} \cup NetworkErrors \cup OtherErrors :
          SendDone(o) /\ UNCHANGED <<ledger, notClient>>
    \/ WaitReturns /\ UNCHANGED <<ledger, notClient>>
    \/ \E m \in NetworkErrors : WaitThrows(m) /\ UNCHANGED <<ledger, notClient>>
    \/ RetryTimer /\ UNCHANGED <<ledger, notClient>>
    \/ \E tx \in {client.pending[i] : i \in 1..Len(client.pending)} :
          Commit(tx, now + 1) /\ UNCHANGED notClient
    \/ \E id \in Ids : \E pa \in Spellings(IF inBounds(id) THEN getEncryptedKeyRet(id)[3] ELSE <<>>) :
          Decrypt(id, pa) /\ UNCHANGED <<ledger, notClient>>

Spec == Init /\ [][Next]_vars
SpecAnyInput == Init /\ [][NextAnyInput]_vars
SpecCipher == InitCipher /\ [][NextCipher]_vars
SpecCounter == Init /\ [][NextCounter]_vars
SpecClient == Init /\ [][NextClient]_vars
SpecList == Init /\ [][NextList]_vars

(***************************************************************************)
(* Properties.                                                              *)
(***************************************************************************)
ReadOps == {"getReportMeta", "getReportData", "getEncryptedKey"}
Granted(handle) == {p \in Principals \cup {Contract} : <<handle, p>> \in acl}
\* The ids of the reports whose stored reporter is p, in increasing order.
OwnedIds(p) ==
    SelectSeq([i \in 1..Len(reports) |-> i - 1],
              LAMBDA id : reports[id + 1].reporter = p)

\* C1: updateReportStatus on an existing report by anyone but its reporter
\* fails with PermissionDenied and leaves every report, the status included,
\* as it was.
C1_NonReporterDenied ==
    [][(/\ last'.op = "updateReportStatus"
        /\ inBounds(last'.id)
        /\ reports[last'.id + 1].reporter # last'.caller)
       => (last'.result = "PermissionDenied" /\ reports' = reports)]_vars

\* bob was refused on alice's report 0, which is still Pending.
C1_Witness ==
    /\ last.op = "updateReportStatus" /\ last.result = "PermissionDenied"
    /\ last.caller = "bob" /\ last.id = 0
    /\ reports[1].reporter = "alice" /\ reports[1].status = Pending

\* C2: submitReport with an empty title fails with InvalidInput for every
\* caller and every other argument, changes nothing, and so no stored report
\* has an empty title.  (Stated for the calls whose proof validates, where the
\* empty title is the only fault of the call.)
C2_EmptyTitleRejected ==
    [][last'.op = "submitReport" =>
        \A s \in Principals, in \in AnyInputs, k \in ExternalHandles,
           pr \in Proofs, ts \in Timestamps :
            (/\ in[1] = "" /\ fromExternalOK(k, pr, s)
             /\ submitReport(s, in[1], in[2], k, pr, ts))
            => (/\ last'.result = "InvalidInput"
                /\ UNCHANGED <<reports, reportsByReporter, acl>>
                /\ \A i \in 1..Len(reports') : reports'[i].title # "")]_vars

\* C3: submitReport with zero bytes of encryptedData fails with InvalidInput
\* for every caller, changes nothing, and so no stored report has empty
\* encryptedData.  (Stated for the calls whose proof validates, where the
\* empty payload is the only fault of the call.)
C3_EmptyDataRejected ==
    [][last'.op = "submitReport" =>
        \A s \in Principals, in \in AnyInputs, k \in ExternalHandles,
           pr \in Proofs, ts \in Timestamps :
            (/\ in[2] = <<>> /\ fromExternalOK(k, pr, s)
             /\ submitReport(s, in[1], in[2], k, pr, ts))
            => (/\ last'.result = "InvalidInput"
                /\ UNCHANGED <<reports, reportsByReporter, acl>>
                /\ \A i \in 1..Len(reports') : reports'[i].encryptedData # <<>>)]_vars

\* C4: getReportCount is 0 after deployment and always equals the number of
\* successful submissions, whatever failed submissions and status updates
\* come between; the k-th successful submission is assigned id k-1.
C4_IdDensity ==
    /\ [](getReportCount = submitted)
    /\ [][submitted' # submitted =>
            (/\ submitted' = submitted + 1
             /\ last'.op = "submitReport" /\ last'.result = "ok"
             /\ last'.id = submitted' - 1
             /\ reports'[last'.id + 1].reporter = last'.caller)]_vars

\* The second successful submission got id 1.
C4_Witness ==
    /\ submitted = 2 /\ getReportCount = 2
    /\ last.op = "submitReport" /\ last.result = "ok" /\ last.id = 1

\* C5: for every principal p, getReportIdsByReporter(p) is exactly the ids
\* below the count whose stored reporter is p, each once and in increasing
\* order, and getReportCountByReporter(p) is its length.
C5_ReporterIndex ==
    \A p \in Principals :
        /\ getReportIdsByReporter(p) = OwnedIds(p)
        /\ getReportCountByReporter(p) = Len(OwnedIds(p))

\* bob submitted first and alice second: bob -> [0], alice -> [1].
C5_Witness ==
    /\ getReportIdsByReporter("bob") = <<0>>
    /\ getReportIdsByReporter("alice") = <<1>>
    /\ getReportCountByReporter("alice") = 1

\* C6: for every stored report the principals granted its encryptedKey handle
\* are exactly the contract and the report's reporter, from the first state in
\* which the report exists; no operation removes a grant.
C6_GrantExactness ==
    /\ [](\A i \in 1..Len(reports) :
            Granted(reports[i].encryptedKey) = {Contract, reports[i].reporter})
    /\ [][acl \subseteq acl']_vars

\* Two reports of two reporters exist and a later status update has run.
C6_Witness ==
    /\ Len(reports) = 2 /\ reports[1].reporter # reports[2].reporter
    /\ last.op = "updateReportStatus" /\ last.result = "ok"
    /\ Granted(reports[1].encryptedKey) = {Contract, reports[1].reporter}

\* C7: a submitReport whose proof does not validate fails with InvalidProof
\* and changes neither the count, a record, an index nor a grant; it consumes
\* no id: a successful submission is assigned the current count.
C7_BadProofAtomic ==
    [][last'.op = "submitReport" =>
        /\ ~ValidInput(last'.encKey, last'.inputProof, last'.caller)
           => (/\ last'.result = "InvalidProof"
               /\ UNCHANGED <<reports, reportsByReporter, acl, submitted>>)
        /\ last'.result = "ok" => last'.id = getReportCount]_vars

\* A submission with a junk proof was refused after one report was stored.
C7_Witness ==
    /\ last.op = "submitReport" /\ last.result = "InvalidProof"
    /\ last.inputProof = "junk" /\ getReportCount = 1

\* C8: no step changes a stored report's reporter, title, encryptedData,
\* encryptedKey or createdAt, and a report's status changes only in a
\* successful updateReportStatus on that id called by its reporter.
C8_FieldImmutability ==
    [][\A i \in 1..Len(reports) :
        /\ i <= Len(reports')
        /\ reports'[i].reporter = reports[i].reporter
        /\ reports'[i].title = reports[i].title
        /\ reports'[i].encryptedData = reports[i].encryptedData
        /\ reports'[i].encryptedKey = reports[i].encryptedKey
        /\ reports'[i].createdAt = reports[i].createdAt
        /\ reports'[i].status # reports[i].status
           => (/\ last'.op = "updateReportStatus" /\ last'.result = "ok"
               /\ last'.id = i - 1 /\ last'.caller = reports[i].reporter)]_vars

\* The reporter of report 0 set it to Resolved after a later report was stored
\* at a later time.
C8_Witness ==
    /\ last.op = "updateReportStatus" /\ last.result = "ok" /\ last.id = 0
    /\ Len(reports) = 2 /\ reports[1].status = Resolved
    /\ reports[1].createdAt < reports[2].createdAt

\* C9: getReportMeta, getReportData and getEncryptedKey fail with NotFound for
\* every id at or above the count and succeed for every id below it.
C9_ReadsNotFound ==
    [][last'.op \in ReadOps =>
        \A id \in Ids :
            (getReportMeta(id) \/ getReportData(id) \/ getEncryptedKey(id))
            => (last'.result = IF id >= getReportCount THEN "NotFound" ELSE "ok")]_vars

\* A read was refused while one report is stored.
C9_Witness ==
    /\ last.op = "getReportData" /\ last.result = "NotFound"
    /\ getReportCount = 1

\* C10: updateReportStatus with an id at or above the count fails with
\* NotFound for every caller, before ownership is looked at, and changes
\* no state.
C10_UpdateNotFound ==
    [][(last'.op = "updateReportStatus" /\ last'.id >= getReportCount)
       => (/\ last'.result = "NotFound"
           /\ UNCHANGED <<reports, reportsByReporter, acl, now, submitted>>)]_vars

\* alice, who owns report 0, was refused on the missing id 1.
C10_Witness ==
    /\ last.op = "updateReportStatus" /\ last.result = "NotFound"
    /\ last.id = 1 /\ last.caller = "alice"
    /\ getReportCount = 1 /\ reports[1].reporter = "alice"

\* C11: for an existing report and its reporter as caller,
\* updateReportStatus(id, s) succeeds for every s of the three statuses
\* whatever the current status is (forward, backward or the same), and leaves
\* the report with status s.
C11_PermissiveLifecycle ==
    [][(/\ last'.op = "updateReportStatus"
        /\ last'.id < getReportCount
        /\ reports[last'.id + 1].reporter = last'.caller)
       => \A s \in ReportStatus :
            updateReportStatus(last'.caller, last'.id, s)
            => (last'.result = "ok" /\ reports'[last'.id + 1].status = s)]_vars

\* The reporter's update left report 0 Pending while report 1 is Resolved:
\* Pending was accepted as a new status, which is no forward move.
C11_Witness ==
    /\ last.op = "updateReportStatus" /\ last.result = "ok" /\ last.id = 0
    /\ last.logs = ReportStatusUpdated(0, Pending)
    /\ getReportCount = 2
    /\ getReportMetaRet(0).status = Pending /\ getReportMetaRet(1).status = Resolved

\* C12: a successful submitReport by caller c at ledger time t stores, at the
\* newly assigned id, reporter = c, the submitted title, status Pending and
\* createdAt = t; createdAt is strictly positive for every stored report.
C12_NewRecord ==
    /\ [](\A i \in 1..Len(reports) : reports[i].createdAt > 0)
    /\ [][(last'.op = "submitReport" /\ last'.result = "ok")
          => \A in \in AnyInputs, t \in Timestamps :
                submitReport(last'.caller, in[1], in[2], last'.encKey,
                             last'.inputProof, t)
                => (/\ reports'[last'.id + 1].reporter = last'.caller
                    /\ reports'[last'.id + 1].title = in[1]
                    /\ reports'[last'.id + 1].status = Pending
                    /\ reports'[last'.id + 1].createdAt = t
                    /\ last'.id = getReportCount' - 1)]_vars

\* bob stored report 1 with title "U" at time 2.
C12_Witness ==
    /\ last.op = "submitReport" /\ last.result = "ok" /\ last.id = 1
    /\ getReportMetaRet(1) = [reporter |-> "bob", title |-> "U",
                              createdAt |-> 2, status |-> Pending]

\* C13: for every stored report, getReportData returns exactly the bytes that
\* were submitted and getEncryptedKey returns the non-zero handle that came
\* out of ingesting that submission's encrypted input, and no later operation
\* changes what either returns.
C13_PayloadReadBack ==
    /\ [](\A id \in 0..(getReportCount - 1) : getEncryptedKeyRet(id) # ZeroHandle)
    /\ [][/\ \A id \in 0..(getReportCount - 1) :
                /\ getReportDataRet(id)' = getReportDataRet(id)
                /\ getEncryptedKeyRet(id)' = getEncryptedKeyRet(id)
          /\ (last'.op = "submitReport" /\ last'.result = "ok")
             => \A in \in AnyInputs, t \in Timestamps :
                   submitReport(last'.caller, in[1], in[2], last'.encKey,
                                last'.inputProof, t)
                   => (/\ reports'[last'.id + 1].encryptedData = in[2]
                       /\ Len(reports'[last'.id + 1].encryptedData) = Len(in[2])
                       /\ reports'[last'.id + 1].encryptedKey = last'.encKey)]_vars

\* Report 0 still reads back its two bytes after a second report was stored
\* and its own status was changed.
C13_Witness ==
    /\ getReportCount = 2
    /\ getReportDataRet(0) = <<8, 9>> /\ getReportDataRet(1) = <<7>>
    /\ getEncryptedKeyRet(0) = <<"h", "alice">>
    /\ last.op = "updateReportStatus" /\ last.result = "ok" /\ last.id = 0

\* C14: the receipt of a successful submitReport holds exactly one
\* ReportSubmitted event with the assigned id, the caller, the title and the
\* stored createdAt; the receipt of a successful updateReportStatus holds
\* exactly one ReportStatusUpdated event (id, newStatus); a call that fails,
\* and a view call, emits nothing.
C14_EventLog ==
    /\ (last.op = "submitReport" /\ last.result = "ok")
       => /\ Len(last.logs) = 1
          /\ last.logs[1] = [name |-> "ReportSubmitted", id |-> getReportCount - 1,
                             reporter |-> last.caller,
                             title |-> getReportMetaRet(getReportCount - 1).title,
                             createdAt |-> getReportMetaRet(getReportCount - 1).createdAt]
          /\ getReportMetaRet(getReportCount - 1).reporter = last.caller
    /\ (last.op = "updateReportStatus" /\ last.result = "ok")
       => /\ Len(last.logs) = 1
          /\ last.logs[1] = [name |-> "ReportStatusUpdated", id |-> last.id,
                             newStatus |-> getReportMetaRet(last.id).status]
    /\ (last.result # "ok" \/ last.op \in ReadOps) => last.logs = <<>>

\* The second submission's receipt carries id 1.
C14_Witness ==
    /\ last.op = "submitReport" /\ last.result = "ok"
    /\ last.logs = <<[name |-> "ReportSubmitted", id |-> 1, reporter |-> "alice",
                      title |-> "T", createdAt |-> 2]>>

\* C15: no step lowers the report count, every report of a state is at the
\* same id in the next state, and every reporter's index in the next state
\* has the current index as a prefix.
C15_AppendOnly ==
    [][/\ getReportCount' >= getReportCount
       /\ \A id \in 0..(getReportCount - 1) :
            /\ getReportMetaRet(id).reporter' = getReportMetaRet(id).reporter
            /\ getReportMetaRet(id).title' = getReportMetaRet(id).title
            /\ getReportMetaRet(id).createdAt' = getReportMetaRet(id).createdAt
       /\ \A p \in Principals :
            /\ getReportCountByReporter(p)' >= getReportCountByReporter(p)
            /\ SubSeq(getReportIdsByReporter(p)', 1, getReportCountByReporter(p))
                   = getReportIdsByReporter(p)]_vars

\* alice's index grew from [0] to [0, 1].
C15_Witness ==
    /\ getReportIdsByReporter("alice") = <<0, 1>>
    /\ last.op = "submitReport" /\ last.result = "ok" /\ last.id = 1

(***************************************************************************)
(* Cipher properties (SpecCipher).                                          *)
(***************************************************************************)
ValidKeyMaterial == Len(cipher.key) = 32 /\ Len(cipher.nonce) = 12
CallEnded == cipher.pc = "returned"
RoundTripEnded == CallEnded /\ cipher.call = "decrypt"

\* C16: with a 32-byte key and a 12-byte nonce, decrypting what encryption
\* returned gives back the plaintext, whatever its length (0, 1, 63, 64, 65
\* and 1000 included).
C16_RoundTrip ==
    (RoundTripEnded /\ ValidKeyMaterial) =>
        (cipher.result = "ok" /\ cipher.output = cipher.plaintext)

\* A 1000-byte plaintext has gone through both calls, and the ciphertext the
\* second call was given differs from it.
C16_Witness ==
    /\ RoundTripEnded
    /\ ValidKeyMaterial
    /\ Len(cipher.plaintext) = 1000
    /\ cipher.input # cipher.plaintext
    /\ cipher.output = cipher.plaintext

\* Number of keystream blocks an input of n bytes takes.
BlocksOf(n) == (n + BlockSize - 1) \div BlockSize

\* C17: a call returns exactly as many bytes as it was given, byte i being
\* input[i] XOR B(i div 64)[i mod 64] with B(c) = chacha20Block(key, c, nonce);
\* the counter starts at 0 and goes up by one per 64-byte block, and a final
\* partial block takes the leading keystream bytes only.
C17_BlockwiseStream ==
    /\ cipher.pc \in {"loop", "returned"} =>
          /\ Len(cipher.output) = Len(cipher.input)
          /\ cipher.pos = Min(BlockSize * cipher.counter, Len(cipher.input))
          /\ cipher.counter = BlocksOf(cipher.pos)
          /\ cipher.block # NoBlock => cipher.blockCtr = cipher.counter - 1
    /\ CallEnded =>
          /\ cipher.pos = Len(cipher.input)
          /\ \A c \in 0..(BlocksOf(Len(cipher.input)) - 1) :
                \A B \in {chacha20Block(cipher.key, c, cipher.nonce)} :
                   \A j \in 0..(BlockSize - 1) :
                      LET i == BlockSize * c + j
                      IN i < Len(cipher.input) =>
                            cipher.output[i + 1] = xor8(cipher.input[i + 1], B[j + 1])

\* A 65-byte input has been returned after two blocks, the second one partial.
C17_Witness ==
    /\ CallEnded
    /\ Len(cipher.input) = 65
    /\ Len(cipher.output) = 65
    /\ cipher.counter = 2
    /\ cipher.pos = 65

\* C18: with a key that is not 32 bytes long or a nonce that is not 12 bytes
\* long the call fails with InvalidKeyMaterial and returns no output.
C18_InvalidKeyMaterial ==
    (CallEnded /\ ~ValidKeyMaterial) =>
        (cipher.result = "InvalidKeyMaterial" /\ cipher.output = <<>>)

\* The keystream block of the all-zero key and nonce at counter 0
\* (the standard ChaCha20 test vector).
ZeroKeyBlock ==
    <<118, 184, 224, 173, 160, 241, 61, 144, 64, 93, 106, 229, 83, 134, 189, 40,
      189, 210, 25, 184, 160, 141, 237, 26, 168, 54, 239, 204, 139, 119, 13, 199,
      218, 65, 89, 124, 81, 87, 72, 141, 119, 36, 224, 63, 184, 216, 74, 55,
      106, 67, 184, 244, 21, 24, 161, 28, 195, 135, 182, 105, 178, 238, 101, 134>>

\* A keystream block has been computed, for counter c.
BlockComputed(c) == cipher.block # NoBlock /\ cipher.blockCtr = c

\* C19: for the key of 32 zero bytes, the nonce of 12 zero bytes and counter
\* 0, chacha20Block returns the reference block.
C19_KnownVector ==
    (BlockComputed(0) /\ cipher.key = Key0 /\ cipher.nonce = Nonce0) =>
        cipher.block = ZeroKeyBlock

C19_Witness ==
    /\ BlockComputed(0)
    /\ cipher.key = Key0
    /\ cipher.nonce = Nonce0
    /\ cipher.block = ZeroKeyBlock

\* The construction, written out from its definition: the state words, the
\* quarter round on four words, the eight index groups and the serialisation.
RefConstants == <<<<24944, 30821>>, <<13088, 25710>>, <<31074, 11570>>, <<27424, 25972>>>>
RefWord(bytes, o) ==
    <<bytes[o + 3] + 256 * bytes[o + 4], bytes[o + 1] + 256 * bytes[o + 2]>>
RefState(key, counter, nonce) ==
    RefConstants
        \o [w \in 1..8 |-> RefWord(key, 4 * (w - 1))]
        \o <<<<counter \div W16, counter % W16>>>>
        \o [w \in 1..3 |-> RefWord(nonce, 4 * (w - 1))]
\* Left rotation by n bits: the top n bits of each half move into the bottom
\* of the other one (after swapping the halves when n >= 16).
RefRotl(v, n) ==
    LET x == IF n < 16 THEN v ELSE <<v[2], v[1]>>
        cut == 2^(16 - (n % 16))
        up == 2^(n % 16)
    IN <<((x[1] % cut) * up) + (x[2] \div cut), ((x[2] % cut) * up) + (x[1] \div cut)>>
RefQuarter(q) ==
    LET a1 == add32(q[1], q[2])
        d1 == RefRotl(xor32(q[4], a1), 16)
        c1 == add32(q[3], d1)
        b1 == RefRotl(xor32(q[2], c1), 12)
        a2 == add32(a1, b1)
        d2 == RefRotl(xor32(d1, a2), 8)
        c2 == add32(c1, d2)
        b2 == RefRotl(xor32(b1, c2), 7)
    IN <<a2, b2, c2, d2>>
RefGroups ==
    <<<<0, 4, 8, 12>>, <<1, 5, 9, 13>>, <<2, 6, 10, 14>>, <<3, 7, 11, 15>>,
      <<0, 5, 10, 15>>, <<1, 6, 11, 12>>, <<2, 7, 8, 13>>, <<3, 4, 9, 14>>>>
RefApply(w, g) ==
    LET q == RefQuarter(<<w[g[1] + 1], w[g[2] + 1], w[g[3] + 1], w[g[4] + 1]>>)
    IN [w EXCEPT ![g[1] + 1] = q[1], ![g[2] + 1] = q[2],
                 ![g[3] + 1] = q[3], ![g[4] + 1] = q[4]]
\* One double round: the quarter rounds of the eight groups in turn.
RefDouble(w) ==
    LET g1 == RefApply(w, RefGroups[1])
        g2 == RefApply(g1, RefGroups[2])
        g3 == RefApply(g2, RefGroups[3])
        g4 == RefApply(g3, RefGroups[4])
        g5 == RefApply(g4, RefGroups[5])
        g6 == RefApply(g5, RefGroups[6])
        g7 == RefApply(g6, RefGroups[7])
    IN RefApply(g7, RefGroups[8])
RECURSIVE RefRounds(_, _)
RefRounds(w, n) ==
    IF n = 0 THEN w
    ELSE LET v == RefDouble(w)
         IN IF Len(v) = 16 THEN RefRounds(v, n - 1) ELSE v
RefBlock(key, counter, nonce) ==
    LET init == RefState(key, counter, nonce)
        final == RefRounds(init, 10)
    IN [j \in 1..64 |->
          LET s == add32(final[((j - 1) \div 4) + 1], init[((j - 1) \div 4) + 1])
              v == IF ((j - 1) % 4) < 2 THEN s[2] ELSE s[1]
          IN IF (j - 1) % 2 = 0 THEN v % 256 ELSE v \div 256]

\* C20: the block chacha20Block returns for a 32-byte key and a 12-byte nonce
\* is the one of the construction: constants, key, counter and nonce words,
\* ten double rounds of column and diagonal quarter rounds with rotations by
\* 16, 12, 8 and 7, feed-forward sum modulo 2^32, little-endian bytes.
C20_BlockConstruction ==
    (cipher.block # NoBlock /\ ValidKeyMaterial) =>
        /\ cipher.block = RefBlock(cipher.key, cipher.blockCtr, cipher.nonce)
        /\ Len(cipher.block) = 64
        /\ \A j \in 1..64 : cipher.block[j] \in 0..255
        /\ \A w \in 1..16 :
              LET x == initState(cipher.key, cipher.blockCtr, cipher.nonce)[w]
              IN x[1] \in 0..(W16 - 1) /\ x[2] \in 0..(W16 - 1)

\* A block for a non-zero key, a non-zero nonce and a non-zero counter.
C20_Witness ==
    /\ cipher.block # NoBlock
    /\ cipher.key = Key1
    /\ cipher.nonce = Nonce1
    /\ cipher.blockCtr = 15
    /\ cipher.block = RefBlock(Key1, 15, Nonce1)

\* C21: a second chacha20Encrypt with the key, nonce and plaintext of the first
\* one returns the ciphertext the first one returned, with a call of
\* chacha20Decrypt in between; no step of a call changes the key, the nonce,
\* the plaintext or the input of the running call.
C21_Determinism ==
    /\ []((CallEnded /\ cipher.call = "encrypt again") =>
            cipher.output = cipher.ciphertext)
    /\ [][/\ cipher'.key = cipher.key
          /\ cipher'.nonce = cipher.nonce
          /\ cipher'.plaintext = cipher.plaintext
          /\ (cipher.pc = "loop" => cipher'.input = cipher.input)]_vars

\* The second encryption of a 65-byte plaintext has returned, after a
\* decryption that used two keystream blocks.
C21_Witness ==
    /\ CallEnded
    /\ cipher.call = "encrypt again"
    /\ Len(cipher.plaintext) = 65
    /\ cipher.counter = 2
    /\ cipher.output = cipher.ciphertext
    /\ cipher.output # cipher.plaintext

(***************************************************************************)
(* FHECounter properties (SpecCounter).                                     *)
(***************************************************************************)
\* C26: a decrement whose input is accepted reverts with the underflow message
\* and leaves the count alone when the input is greater than the count;
\* otherwise the count becomes count - input, which is not below zero.
C26_UnderflowProtection ==
    [][\A s \in Principals, h \in CounterHandles(DecrementValues) :
          decrement(s, h, "proof") /\ h[2] = s =>
             IF \/ h[1] \div W16 > fheCounter.count[1]
                \/ /\ h[1] \div W16 = fheCounter.count[1]
                   /\ h[1] % W16 > fheCounter.count[2]
             THEN /\ fheCounter'.result = "Underflow: cannot subtract more than current count"
                  /\ fheCounter'.count = fheCounter.count
                  /\ fheCounter'.allowed = fheCounter.allowed
             ELSE /\ fheCounter'.result = "ok"
                  /\ le32(fheCounter'.count, fheCounter.count)
                  /\ add32(fheCounter'.count, toUint32(h[1])) = fheCounter.count]_vars

\* A decrement of 2,000,000 was refused at count 1,000,000.
C26_Witness ==
    /\ fheCounter.op = "decrement"
    /\ fheCounter.input = 2000000
    /\ fheCounter.result = "Underflow: cannot subtract more than current count"
    /\ fheCounter.count = toUint32(1000000)

\* C27: an increment whose input exceeds 1,000,000 reverts with the count
\* unchanged, and the 32-bit count is always the exact sum of the successful
\* increments minus the successful decrements.
C27_OverflowProtection ==
    /\ [](fheCounter.count = fheCounter.sum)
    /\ [][\A s \in Principals, h \in CounterHandles(IncrementValues) :
             increment(s, h, "proof") /\ h[2] = s /\ h[1] > 1000000 =>
                /\ fheCounter'.result = "Input value too large"
                /\ fheCounter'.count = fheCounter.count]_vars

\* C28: a successful updateReportStatus(id, s) changes the status of report id
\* and nothing else: every other report, the other fields of report id, the
\* report count, the reporter indexes and the access grants stay as they were.
C28_UpdateFrame ==
    [][\A s \in Principals, id \in Ids, st \in ReportStatus :
          updateReportStatus(s, id, st) /\ last'.result = "ok" =>
             /\ Len(reports') = Len(reports)
             /\ \A i \in 1..Len(reports) :
                   IF i = id + 1
                   THEN reports'[i] = [reports[i] EXCEPT !.status = st]
                   ELSE reports'[i] = reports[i]
             /\ reportsByReporter' = reportsByReporter
             /\ acl' = acl
             /\ submitted' = submitted]_vars

\* Report 1 went from Pending to Reviewed while report 0, of another
\* reporter, kept its Resolved status.
C28_Witness ==
    /\ last.op = "updateReportStatus" /\ last.result = "ok" /\ last.id = 1
    /\ getReportCount = 2
    /\ reports[1].reporter # reports[2].reporter
    /\ reports[1].status = Resolved
    /\ reports[2].status = Reviewed

\* C22: the key the decrypting client derives is the 32 bytes of the hash of
\* the UTF-8 text of the lower-cased address; it is the key the submitting
\* client derived from the password of that report, however the hex letters
\* of the disclosed address are spelled, and both copies of
\* deriveKeyFromPasswordAddress agree on the disclosed spelling.
C22_KeyDerivation ==
    client.dec.done =>
       \A pa \in {client.dec.passwordAddress} :
          /\ Len(client.dec.key) = 32
          /\ client.dec.key = hexToBytes(keccak256(toUtf8Bytes(toLowerCase(pa))))
          /\ client.dec.key = deriveKeyFromPasswordAddress(pa)
          /\ deriveKeyOfList(pa) = deriveKeyOfList(toLowerCase(pa))
          /\ \E i \in 1..Len(client.used) :
                /\ client.used[i].password = toLowerCase(pa)
                /\ client.used[i].key = client.dec.key

\* A report was decrypted with its password disclosed in a spelling with
\* capital hex letters.
C22_Witness ==
    /\ client.dec.done
    /\ client.dec.passwordAddress # toLowerCase(client.dec.passwordAddress)
    /\ Len(client.dec.key) = 32

\* C24: the payload the submit client builds and sends is the 12-byte nonce
\* of the attempt followed by as many bytes as the UTF-8 text of the content
\* has, and the decrypting client takes bytes [0, 12) of the stored payload
\* as the nonce and bytes [12, end) as the ciphertext.
C24_WireFormat ==
    /\ client.pc \in {"encrypt", "send", "wait"} =>
          /\ Len(client.nonce) = 12
          /\ SubSeq(client.data, 1, 12) = client.nonce
          /\ Len(client.data) = 12 + Len(utf8ToBytes(client.closure.content))
    /\ client.pc = "wait" => client.tx.data = client.data
    /\ client.dec.done =>
          \A stored \in {getReportDataRet(client.dec.id)} :
             /\ client.dec.nonce = SubSeq(stored, 1, 12)
             /\ client.dec.ct = SubSeq(stored, 13, Len(stored))
             /\ \E i \in 1..Len(client.used) :
                   /\ client.used[i].password = toLowerCase(client.dec.passwordAddress)
                   /\ client.used[i].nonce = client.dec.nonce

\* A stored payload of 12 + 10 bytes was split for decryption.
C24_Witness ==
    /\ client.dec.done
    /\ Len(getReportDataRet(client.dec.id)) = 22
    /\ Len(client.dec.nonce) = 12
    /\ Len(client.dec.ct) = 10

\* C23: decrypting a stored report with its disclosed password yields exactly
\* the content that was submitted.
C23_Recovery ==
    client.dec.done =>
       \E i \in 1..Len(client.used) :
          /\ client.used[i].password = toLowerCase(client.dec.passwordAddress)
          /\ client.dec.text = client.used[i].content

\* C25: every attempt that reaches the encryption step, automatic retries
\* included, uses a 12-byte nonce and a password that no other attempt used;
\* no (key, nonce) pair serves twice.
C25_UniqueNonce ==
    \A i, j \in 1..Len(client.used) :
       /\ Len(client.used[i].nonce) = 12
       /\ i # j =>
             /\ client.used[i].nonce # client.used[j].nonce
             /\ client.used[i].password # client.used[j].password
             /\ <<client.used[i].key, client.used[i].nonce>> #
                   <<client.used[j].key, client.used[j].nonce>>

\* The first automatic retry of a submit action has encrypted the content
\* again.
C25_Witness ==
    /\ client.pc = "encrypt"
    /\ client.retries = 1
    /\ Len(client.used) = 2
    /\ client.used[1].content = client.used[2].content

\* C29: one submit action is followed by at most 3 automatic retries.
C29_BoundedRetry ==
    client.retries <= 3

\* C30: no two reports of the ledger originate from the same submit action.
C30_OneReportPerAction ==
    \A i, j \in 1..Len(client.origin) :
       i # j => client.origin[i] # client.origin[j]

\* C31: from the start of a submission until it has succeeded or failed for
\* good, the wait before an automatic retry included, canSubmit is false.
C31_SingleInFlight ==
    client.pc # "idle" => ~canSubmit(client)

\* C33: a handleSubmit that runs without a signer, or with a title or a
\* content that is empty or white space only, encrypts nothing and sends
\* nothing; it sets an error message and leaves isSubmitting false.
C33_Validation ==
    [][\A t \in Titles, c \in Contents, es \in BOOLEAN :
          /\ ~es \/ t \in {"", " "} \/ (\A i \in 1..Len(c) : c[i] \in WhiteSpace)
          /\ Click(t, c, es)
          => /\ client'.error \in {"Please connect your wallet first",
                                   "Please enter both title and content"}
             /\ ~es => client'.error = "Please connect your wallet first"
             /\ ~client'.isSubmitting
             /\ client'.pc = "idle"
             /\ client'.used = client.used
             /\ client'.rng = client.rng
             /\ client'.pending = client.pending
             /\ client'.data = client.data]_vars

\* The form was submitted with a signer, a title of one space and a content
\* that is not blank: it was refused.
C33_Witness ==
    /\ client.action = 1
    /\ client.closure.ethersSigner
    /\ client.closure.title = " "
    /\ client.closure.content = <<65279, 104>>
    /\ client.error = "Please enter both title and content"
    /\ client.used = <<>>

\* C34: stored reports carry timestamps in the order of their ids:
\* createdAt(i) <= createdAt(j) for i < j.
C34_TimestampOrder ==
    \A i, j \in 1..Len(reports) :
       i < j => reports[i].createdAt <= reports[j].createdAt

\* Two reports were stored in two blocks.
C34_Witness ==
    /\ getReportCount = 2
    /\ getReportMetaRet(0).createdAt < getReportMetaRet(1).createdAt

\* C36: a view call reads no caller, emits nothing and changes no state; what
\* it returns for an id is fixed by the stored reports alone, whoever holds a
\* grant on the key handle.
C36_ReadsPure ==
    [][last'.op \in ReadOps =>
          /\ UNCHANGED <<reports, reportsByReporter, acl, now, submitted>>
          /\ last'.caller = NoCaller
          /\ last'.logs = <<>>
          /\ getReportCount' = getReportCount
          /\ \A p \in Principals :
                getReportIdsByReporter(p)' = getReportIdsByReporter(p)
          /\ \A id \in 0..(getReportCount - 1) :
                /\ getReportMetaRet(id)' = getReportMetaRet(id)
                /\ getReportDataRet(id)' = getReportDataRet(id)
                /\ getEncryptedKeyRet(id)' = getEncryptedKeyRet(id)]_vars

\* The payload of report 1 was read while each of two reporters holds the
\* grant on their own key handle only.
C36_Witness ==
    /\ last.op = "getReportData" /\ last.result = "ok"
    /\ getReportCount = 2
    /\ reports[1].reporter # reports[2].reporter
    /\ <<getEncryptedKeyRet(1), reports[1].reporter>> \notin acl
    /\ getReportMetaRet(1).status = Pending

(***************************************************************************)
(* ReportList properties (SpecList).                                        *)
(***************************************************************************)
\* C32: once the fetch started last has set its result and nothing is being
\* fetched or in error, the reports on display are reports of the connected
\* address: an earlier fetch did not replace them.
C32_NoStaleList ==
    (/\ list.fetches # <<>>
     /\ list.fetches[Len(list.fetches)].stage = "done"
     /\ \A f \in 1..Len(list.fetches) : list.fetches[f].stage \in {"done", "failed"}
     /\ ~list.loading /\ list.error = "null")
    => \A i \in 1..Len(list.reports) : list.reports[i].reporter = list.address

\* C35: after a successful fetch the list holds one entry per id the ledger
\* returned for the address of the fetch, each with the metadata of that id,
\* newest first; after a failed fetch an error is set; loading is false after
\* both.
C35_FetchResult ==
    /\ list.last.op = "done" =>
          \A f \in {list.fetches[list.last.fetch]} :
             /\ ~list.loading
             /\ Len(list.reports) = Len(f.ids)
             /\ \A k \in 1..Len(f.ids) :
                   /\ f.ids[k] = getReportIdsByReporter(f.address)[k]
                   /\ \E i \in 1..Len(list.reports) : list.reports[i].id = f.ids[k]
             /\ \A i \in 1..Len(list.reports) :
                   /\ list.reports[i] =
                         [id |-> list.reports[i].id] @@ getReportMetaRet(list.reports[i].id)
                   /\ list.reports[i].reporter = f.address
                   /\ \A j \in 1..Len(list.reports) :
                         /\ (i # j => list.reports[i].id # list.reports[j].id)
                         /\ (i < j => list.reports[i].createdAt >= list.reports[j].createdAt)
    /\ list.last.op = "failed" => (~list.loading /\ list.error # "null")

\* A fetch listed the two reports of alice, stored in two blocks: report 1
\* comes before report 0.
C35_Witness ==
    /\ list.last.op = "done"
    /\ list.address = "alice"
    /\ Len(list.reports) = 2
    /\ list.reports[1].id = 1 /\ list.reports[2].id = 0
    /\ list.reports[1].createdAt > list.reports[2].createdAt

====
